---------------------------- MODULE Spec2Model ----------------------------
(***************************************************************************)
(* Model of app.py: the /reload and /predict handlers of the Cambridge     *)
(* assessed-value service, the Assessment table, the module-level model    *)
(* and encoder, and preprocess_data.                                       *)
(*                                                                         *)
(* Spec     : the handlers as Flask's threaded server runs them, one       *)
(*            thread per request, interleaved at every access to the       *)
(*            shared globals and at the database commit.                   *)
(* SeqSpec  : the same handlers, one request at a time.                    *)
(* PreSpec  : preprocess_data applied to a frame drawn from bounded sets.  *)
(***************************************************************************)
EXTENDS Integers, Sequences, FiniteSets, TLC

VARIABLES
    store,      \* committed rows of the Assessment table
    storegen,   \* number of the reload whose commit wrote store (0: none)
    encoder,    \* the global `encoder`
    model,      \* the global `model`
    nreloads,   \* reload calls started so far
    reloaders,  \* per reload thread: position, locals, response
    predictors, \* per predict thread: position, locals, response
    pin,        \* PreSpec: the frame handed to preprocess_data
    pout        \* PreSpec: what preprocess_data returned

vars == <<store, storegen, encoder, model, nreloads, reloaders, predictors, pin, pout>>

---------------------------------------------------------------------------
(* Bounds *)

MaxRows == 3

MaxReloads == 2

---------------------------------------------------------------------------
(* Cells of a data frame.  A numeric cell is a natural number; NaN is the  *)
(* missing numeric cell, NaNStr the missing text cell.                     *)

NaN == -1

NaNStr == "NaN"

RowA == [assessedvalue |-> 100, interior_bedrooms |-> 2, interior_fullbaths |-> 1,
         interior_halfbaths |-> 1, condition_overallcondition |-> "Good"]

RowB == [assessedvalue |-> 200, interior_bedrooms |-> 3, interior_fullbaths |-> 2,
         interior_halfbaths |-> 0, condition_overallcondition |-> "Fair"]

RowC == [assessedvalue |-> 150, interior_bedrooms |-> 2, interior_fullbaths |-> 1,
         interior_halfbaths |-> NaN, condition_overallcondition |-> "Good"]

UpstreamRows == {RowA, RowB, RowC}

\* The CSV bodies the remote source may serve: up to MaxRows data lines.
UpstreamFrames == UNION {[1..n -> UpstreamRows] : n \in 0..MaxRows}

\* pd.read_csv: the rows under a RangeIndex 0..n-1.
ReadCsv(csv) == [i \in 1..Len(csv) |-> [idx |-> i - 1, row |-> csv[i]]]

HasNa(row) ==
    \/ row.assessedvalue = NaN
    \/ row.interior_bedrooms = NaN
    \/ row.interior_fullbaths = NaN
    \/ row.interior_halfbaths = NaN
    \/ row.condition_overallcondition = NaNStr

\* DataFrame.dropna on the five columns: the surviving rows keep their labels.
DropNa(df) == SelectSeq(df, LAMBDA r : ~HasNa(r.row))

---------------------------------------------------------------------------
(* OneHotEncoder *)

\* The seven literals predict accepts, in the order of the list in predict.
valid_condition_overallcondition ==
    <<"Average", "Excellent", "Fair", "Good", "Poor", "Superior", "Very Good">>

ValidConditions == {valid_condition_overallcondition[i] : i \in 1..7}

\* Lexicographic order of the condition strings that occur (numpy's sort of
\* the categories): upper case before lower case.
LexOrder == valid_condition_overallcondition \o <<"good">>

\* encoder.categories_ after fit: the distinct values, sorted.
Categories(df) ==
    LET seen == {df[i].row.condition_overallcondition : i \in 1..Len(df)}
    IN  SelectSeq(LexOrder, LAMBDA c : c \in seen)

\* encoder.transform([[c]])[0] for a known category.
OneHot(cats, c) == [i \in 1..Len(cats) |-> IF cats[i] = c THEN 1 ELSE 0]

\* InCategories of an encoder made with handle_unknown='ignore'.
InCategoriesIgnore(cats, c) == TRUE

\* Whether encoder.transform knows the category (it raises when not).
InCategories(cats, c) == \E i \in 1..Len(cats) : cats[i] = c

---------------------------------------------------------------------------
(* preprocess_data *)

RECURSIVE SortedSeq(_)
\* The elements of a finite set of integers in increasing order.
SortedSeq(S) ==
    IF S = {} THEN <<>>
    ELSE LET m == CHOOSE x \in S : \A y \in S : x <= y
         IN  <<m>> \o SortedSeq(S \ {m})

\* Line 58: the indicator matrix as a frame of its own, labelled 0..m-1.
EncodedFrame(df, cats) ==
    [i \in 1..Len(df) |->
        [idx |-> i - 1, onehot |-> OneHot(cats, df[i].row.condition_overallcondition)]]

\* Line 61: pd.concat(axis=1) joins the two frames on their row labels; a
\* label one side lacks gets NaN in that side's columns.  Line 64: dropna
\* then removes every row holding a NaN, so a row survives when its label
\* occurs on both sides.
ConcatDropNa(df, enc) ==
    LET labels == {df[i].idx : i \in 1..Len(df)} \cup {enc[i].idx : i \in 1..Len(enc)}
        both   == {l \in labels : /\ \E i \in 1..Len(df) : df[i].idx = l
                                  /\ \E j \in 1..Len(enc) : enc[j].idx = l}
        order  == SortedSeq(both)
        left(l)  == df[CHOOSE i \in 1..Len(df) : df[i].idx = l]
        right(l) == enc[CHOOSE j \in 1..Len(enc) : enc[j].idx = l]
    IN  [k \in 1..Len(order) |->
            [idx                |-> order[k],
             assessedvalue      |-> left(order[k]).row.assessedvalue,
             interior_bedrooms  |-> left(order[k]).row.interior_bedrooms,
             interior_fullbaths |-> left(order[k]).row.interior_fullbaths,
             interior_halfbaths |-> left(order[k]).row.interior_halfbaths,
             onehot             |-> right(order[k]).onehot]]

\* Lines 46-51 on a frame without rows: mode() is empty and mode()[0] raises.
PreprocessRaises(df) == DropNa(df) = <<>>

\* preprocess_data(df) when it returns: the frame and the fitted encoder's
\* categories.  After line 43 no cell is missing, so the fillna calls of
\* lines 46-51 change nothing.
preprocess_data(df) ==
    LET clean == DropNa(df)
        cats  == Categories(clean)
    IN  [df |-> ConcatDropNa(clean, EncodedFrame(clean, cats)), categories |-> cats]

---------------------------------------------------------------------------
(* The Assessment table *)

\* Lines 96-104: one Assessment per row of the frame, in frame order; the
\* table is empty when they are inserted, so the keys run from 1.
ToRecords(df) ==
    [i \in 1..Len(df) |->
        [id                         |-> i,
         assessedvalue              |-> df[i].row.assessedvalue,
         interior_bedrooms          |-> df[i].row.interior_bedrooms,
         interior_fullbaths         |-> df[i].row.interior_fullbaths,
         interior_halfbaths         |-> df[i].row.interior_halfbaths,
         condition_overallcondition |-> df[i].row.condition_overallcondition]]

\* CommittedTable without the DELETE of line 90.
CommittedTableNoDelete(old, df) == old \o ToRecords(df)

\* Lines 90-105: the table after the commit of a session that deleted every
\* row and then added one Assessment per row of the frame.
CommittedTable(old, df) ==
    LET deleted == SubSeq(old, 1, 0)
    IN  deleted \o ToRecords(df)

\* A table left by an earlier run of the process (assessments.db is a file).
InitialTables == {<<>>, ToRecords(ReadCsv(<<RowB>>))}

---------------------------------------------------------------------------
(* The globals of lines 68-69 and the objects they name *)

NoEncoder == [set |-> FALSE, gen |-> 0, categories |-> <<>>]

NoModel == [set |-> FALSE, id |-> 0, fitted |-> FALSE, fitgen |-> 0, cols |-> <<>>]

\* Line 111: a LinearRegression that has not been fitted.
NewModel(g) == [set |-> TRUE, id |-> g, fitted |-> FALSE, fitgen |-> 0, cols |-> <<>>]

\* FeatureNames with the target column left in X.
FeatureNamesWithTarget(cats) ==
    <<<<"assessedvalue">>, <<"interior_bedrooms">>, <<"interior_fullbaths">>,
      <<"interior_halfbaths">>>>
    \o [i \in 1..Len(cats) |-> <<"condition_overallcondition", cats[i]>>]

\* Line 109: the columns of X, in the frame's order: the three numeric
\* columns, then one indicator column per category.
FeatureNames(cats) ==
    <<<<"interior_bedrooms">>, <<"interior_fullbaths">>, <<"interior_halfbaths">>>>
    \o [i \in 1..Len(cats) |-> <<"condition_overallcondition", cats[i]>>]

\* Line 112: model.fit(X, y) on the object the global names at that moment.
Fitted(m, g, cats) == [m EXCEPT !.fitted = TRUE, !.fitgen = g, !.cols = FeatureNames(cats)]

---------------------------------------------------------------------------
(* reload_data *)

Reloaders == {"r1", "r2"}

UpstreamOutcomes ==
    [kind : {"csv"}, csv : UpstreamFrames]
    \cup [kind : {"unreachable", "malformed", "nocolumn"}, csv : {<<>>}]

NoResponse == [status |-> 0, total_assessments |-> 0]

ReloadFailed == [status |-> 500, total_assessments |-> 0]

\* The table and the globals as a request found them.
Shared == [store |-> store, encoder |-> encoder, model |-> model]

ReloaderIdle ==
    [pc |-> "idle", gen |-> 0, response |-> [kind |-> "csv", csv |-> <<>>],
     assessments |-> <<>>, resp |-> NoResponse,
     before |-> [store |-> <<>>, encoder |-> NoEncoder, model |-> NoModel]]

\* Lines 84-94: fetch, parse, select the five columns and drop the rows with
\* a missing cell.  The DELETE of line 90 stays pending in the session.
ReloadFetch(r, up) ==
    /\ reloaders[r].pc = "idle"
    /\ nreloads < MaxReloads
    /\ nreloads' = nreloads + 1
    /\ reloaders' = [reloaders EXCEPT ![r] =
          IF up.kind = "csv"
          THEN [pc |-> "persist", gen |-> nreloads + 1, response |-> up,
                assessments |-> DropNa(ReadCsv(up.csv)), resp |-> NoResponse,
                before |-> Shared]
          ELSE [pc |-> "done", gen |-> nreloads + 1, response |-> up,
                assessments |-> <<>>, resp |-> ReloadFailed, before |-> Shared]]
    /\ UNCHANGED <<store, storegen, encoder, model, predictors, pin, pout>>

\* Lines 96-105: the inserts and the commit.
ReloadPersist(r) ==
    /\ reloaders[r].pc = "persist"
    /\ store' = CommittedTable(store, reloaders[r].assessments)
    /\ storegen' = reloaders[r].gen
    /\ reloaders' = [reloaders EXCEPT ![r].pc = "preprocess"]
    /\ UNCHANGED <<encoder, model, nreloads, predictors, pin, pout>>

\* Line 105 raising (the database refuses the commit): the request ends and
\* the session is rolled back with the pending DELETE and inserts.
ReloadPersistFails(r) ==
    /\ reloaders[r].pc = "persist"
    /\ reloaders' = [reloaders EXCEPT ![r].pc = "done", ![r].resp = ReloadFailed]
    /\ UNCHANGED <<store, storegen, encoder, model, nreloads, predictors, pin, pout>>

\* The global `encoder` after line 108 returned for the reload numbered g.
EncoderAfterPreprocess(g, df) ==
    [set |-> TRUE, gen |-> g, categories |-> preprocess_data(df).categories]

\* Line 108: df, encoder = preprocess_data(assessments).
ReloadPreprocess(r) ==
    /\ reloaders[r].pc = "preprocess"
    /\ IF PreprocessRaises(reloaders[r].assessments)
       THEN /\ reloaders' = [reloaders EXCEPT ![r].pc = "done", ![r].resp = ReloadFailed]
            /\ UNCHANGED encoder
       ELSE /\ encoder' = EncoderAfterPreprocess(reloaders[r].gen, reloaders[r].assessments)
            /\ reloaders' = [reloaders EXCEPT ![r].pc = "newmodel"]
    /\ UNCHANGED <<store, storegen, model, nreloads, predictors, pin, pout>>

\* Line 111: model = LinearRegression().
ReloadNewModel(r) ==
    /\ reloaders[r].pc = "newmodel"
    /\ model' = NewModel(reloaders[r].gen)
    /\ reloaders' = [reloaders EXCEPT ![r].pc = "fit"]
    /\ UNCHANGED <<store, storegen, encoder, nreloads, predictors, pin, pout>>

\* Lines 115-125: the summary of a reload that got through.
Summary(assessments) == [status |-> 200, total_assessments |-> Len(assessments)]

\* Lines 109-125: fit the object the global `model` names on this reload's
\* frame (fit raises on a frame without rows), then answer.
ReloadFit(r) ==
    /\ reloaders[r].pc = "fit"
    /\ LET pre == preprocess_data(reloaders[r].assessments)
       IN  IF pre.df = <<>>
           THEN /\ reloaders' = [reloaders EXCEPT ![r].pc = "done", ![r].resp = ReloadFailed]
                /\ UNCHANGED model
           ELSE /\ model' = Fitted(model, reloaders[r].gen, pre.categories)
                /\ reloaders' = [reloaders EXCEPT ![r].pc = "done",
                                     ![r].resp = Summary(reloaders[r].assessments)]
    /\ UNCHANGED <<store, storegen, encoder, nreloads, predictors, pin, pout>>

\* The response is sent; the request's locals are gone.
ReloadReturn(r) ==
    /\ reloaders[r].pc = "done"
    /\ reloaders' = [reloaders EXCEPT ![r] = ReloaderIdle]
    /\ UNCHANGED <<store, storegen, encoder, model, nreloads, predictors, pin, pout>>

---------------------------------------------------------------------------
(* predict *)

Predictors == {"p1"}

\* JSON values of a request body.  data.get(key) of an absent key is None,
\* as is an explicit null.
JNull == [t |-> "null", v |-> 0, s |-> ""]

JNum(n) == [t |-> "num", v |-> n, s |-> ""]

JStr(x) == [t |-> "str", v |-> 0, s |-> x]

NumericInputs == {JNull, JNum(2), JStr("1"), JStr("abc")}

ConditionInputs == {JNull, JStr("good"), JStr("Very good")} \cup {JStr(c) : c \in ValidConditions}

\* Request bodies: a JSON object, or bytes that are not JSON.
Bodies ==
    [json : {TRUE}, interior_bedrooms : NumericInputs, interior_fullbaths : NumericInputs,
     interior_halfbaths : NumericInputs, condition_overallcondition : ConditionInputs]
    \cup [json : {FALSE}, interior_bedrooms : {JNull}, interior_fullbaths : {JNull},
          interior_halfbaths : {JNull}, condition_overallcondition : {JNull}]

\* The texts among the inputs that read as a number.
NumericText == [x \in {"1"} |-> 1]

\* pd.to_numeric(value, errors='coerce'): a number is itself, a text is the
\* number it reads as, and None or any other text is NaN.
to_numeric(j) ==
    CASE j.t = "num" -> j.v
      [] j.t = "str" -> IF j.s \in DOMAIN NumericText THEN NumericText[j.s] ELSE NaN
      [] OTHER       -> NaN

ErrNotLoaded ==
    "The data has not been loaded. Please refresh the data by calling the '/reload' endpoint first."

ErrMissing == "Missing or invalid required parameters"

ErrCondition ==
    "Invalid condition_overallcondition. Please choose one of the following: Average, Excellent, Fair, Good, Poor, Superior, Very Good"

ErrNumeric == "Invalid numeric values for interior_bedrooms, interior_fullbaths, or interior_halfbaths"

\* Raised by request.json on a body that is not JSON (outside the try).
ErrBadRequest == "Bad Request"

\* str(e) of what encoder.transform and model.predict raise.
ErrUnknownCategory == "Found unknown categories"

ErrNotFitted == "This LinearRegression instance is not fitted yet"

ErrFeatures == "X has a different number of features than LinearRegression is expecting"

NoPrediction == [fitgen |-> 0, input_data |-> <<>>]

NoAnswer == [status |-> 0, error |-> "", predicted_assessedvalue |-> NoPrediction]

Error(code, msg) == [status |-> code, error |-> msg, predicted_assessedvalue |-> NoPrediction]

\* The value model.predict returns is fixed by the fit and the input row.
Success(m, input) ==
    [status |-> 200, error |-> "",
     predicted_assessedvalue |-> [fitgen |-> m.fitgen, input_data |-> input]]

PredictorIdle ==
    [pc |-> "idle",
     data |-> [json |-> FALSE, interior_bedrooms |-> JNull, interior_fullbaths |-> JNull,
               interior_halfbaths |-> JNull, condition_overallcondition |-> JNull],
     input_data |-> <<>>, usedEncoder |-> NoEncoder, usedModel |-> NoModel, resp |-> NoAnswer]

\* Accepted with the comparison made without regard to case.
AcceptedAnyCase(condition) ==
    condition.t = "str" /\ condition.s \in ValidConditions \cup {"good", "Very good"}

\* Line 172: condition_overallcondition in valid_condition_overallcondition.
Accepted(condition) == condition.t = "str" /\ condition.s \in ValidConditions

\* Validate with the body read and checked ahead of the not-loaded check.
ValidateBodyFirst(m, e, data) ==
    LET interior_bedrooms  == to_numeric(data.interior_bedrooms)
        interior_fullbaths == to_numeric(data.interior_fullbaths)
        interior_halfbaths == to_numeric(data.interior_halfbaths)
        condition          == data.condition_overallcondition
    IN  IF ~data.json THEN Error(400, ErrBadRequest)
        ELSE IF condition.t = "null" THEN Error(400, ErrMissing)
        ELSE IF ~Accepted(condition) THEN Error(400, ErrCondition)
        ELSE IF NaN \in {interior_bedrooms, interior_fullbaths, interior_halfbaths}
             THEN Error(400, ErrNumeric)
        ELSE IF ~m.set \/ ~e.set THEN Error(400, ErrNotLoaded)
        ELSE NoAnswer

\* Lines 158-177: what the checks ahead of the try body's work answer, or
\* NoAnswer when the request passes them all.
Validate(m, e, data) ==
    LET interior_bedrooms  == to_numeric(data.interior_bedrooms)
        interior_fullbaths == to_numeric(data.interior_fullbaths)
        interior_halfbaths == to_numeric(data.interior_halfbaths)
        condition          == data.condition_overallcondition
    IN  IF ~m.set \/ ~e.set THEN Error(400, ErrNotLoaded)
        ELSE IF ~data.json THEN Error(400, ErrBadRequest)
        \* line 168: to_numeric never yields None, so only the condition can
        ELSE IF condition.t = "null" THEN Error(400, ErrMissing)
        ELSE IF ~Accepted(condition) THEN Error(400, ErrCondition)
        ELSE IF NaN \in {interior_bedrooms, interior_fullbaths, interior_halfbaths}
             THEN Error(400, ErrNumeric)
        ELSE NoAnswer

\* Lines 158-177: the not-loaded check on the globals, then the body is read
\* and validated.
PredictCheck(p, data) ==
    /\ predictors[p].pc = "idle"
    /\ LET answer == Validate(model, encoder, data)
       IN  predictors' = [predictors EXCEPT ![p] =
               [PredictorIdle EXCEPT !.data = data, !.resp = answer,
                    !.pc = IF answer = NoAnswer THEN "encode" ELSE "done"]]
    /\ UNCHANGED <<store, storegen, encoder, model, nreloads, reloaders, pin, pout>>

\* InputData with the indicator vector ahead of the three numbers.
InputDataIndicatorsFirst(data, onehot) ==
    onehot \o <<to_numeric(data.interior_bedrooms), to_numeric(data.interior_fullbaths),
                to_numeric(data.interior_halfbaths)>>

\* Lines 181-182: the three numbers followed by the indicator vector.
InputData(data, onehot) ==
    <<to_numeric(data.interior_bedrooms), to_numeric(data.interior_fullbaths),
      to_numeric(data.interior_halfbaths)>> \o onehot

\* Lines 180-182: encoder.transform on the object the global names now; it
\* raises on a category the encoder was not fitted on.
PredictEncode(p) ==
    /\ predictors[p].pc = "encode"
    /\ LET c == predictors[p].data.condition_overallcondition.s
       IN  IF InCategories(encoder.categories, c)
           THEN predictors' = [predictors EXCEPT ![p].pc = "predict",
                    ![p].usedEncoder = encoder,
                    ![p].input_data = InputData(predictors[p].data, OneHot(encoder.categories, c))]
           ELSE predictors' = [predictors EXCEPT ![p].pc = "done",
                    ![p].usedEncoder = encoder,
                    ![p].resp = Error(500, ErrUnknownCategory)]
    /\ UNCHANGED <<store, storegen, encoder, model, nreloads, reloaders, pin, pout>>

\* model.predict(input_data) on the model object m.
ModelPredict(m, input) ==
    IF ~m.fitted THEN Error(500, ErrNotFitted)
    ELSE IF Len(input) # Len(m.cols) THEN Error(500, ErrFeatures)
    ELSE Success(m, input)

\* Lines 185-190: model.predict on the object the global names now.
PredictModel(p) ==
    /\ predictors[p].pc = "predict"
    /\ predictors' = [predictors EXCEPT ![p].pc = "done",
            ![p].usedModel = model,
            ![p].resp = ModelPredict(model, predictors[p].input_data)]
    /\ UNCHANGED <<store, storegen, encoder, model, nreloads, reloaders, pin, pout>>

\* The response is sent; the request's locals are gone.
PredictReturn(p) ==
    /\ predictors[p].pc = "done"
    /\ predictors' = [predictors EXCEPT ![p] = PredictorIdle]
    /\ UNCHANGED <<store, storegen, encoder, model, nreloads, reloaders, pin, pout>>

---------------------------------------------------------------------------
(* preprocess_data on its own *)

\* Frames as read_csv yields them, and as reload_data hands them over: with
\* the rows that had a missing cell already dropped.
PreInputs ==
    {ReadCsv(csv) : csv \in UpstreamFrames} \cup {DropNa(ReadCsv(csv)) : csv \in UpstreamFrames}

NotCalled == [called |-> FALSE, raised |-> FALSE, df |-> <<>>, categories |-> <<>>]

PreprocessCall ==
    /\ ~pout.called
    /\ pout' = IF PreprocessRaises(pin)
               THEN [called |-> TRUE, raised |-> TRUE, df |-> <<>>, categories |-> <<>>]
               ELSE [called |-> TRUE, raised |-> FALSE, df |-> preprocess_data(pin).df,
                     categories |-> preprocess_data(pin).categories]
    /\ UNCHANGED <<store, storegen, encoder, model, nreloads, reloaders, predictors, pin>>

---------------------------------------------------------------------------
(* Specifications *)

Init ==
    /\ store \in InitialTables
    /\ storegen = 0
    /\ encoder = NoEncoder
    /\ model = NoModel
    /\ nreloads = 0
    /\ reloaders = [r \in Reloaders |-> ReloaderIdle]
    /\ predictors = [p \in Predictors |-> PredictorIdle]
    /\ pin = <<>>
    /\ pout = NotCalled

\* What the concurrent requests are run on: a source that is unreachable or
\* serves one of a few small files, and a few request bodies.
ConcurrentUpstream ==
    [kind : {"csv"}, csv : {<<>>, <<RowA>>, <<RowB>>, <<RowA, RowB>>, <<RowC, RowA>>}]
    \cup [kind : {"unreachable"}, csv : {<<>>}]

ConcurrentBodies ==
    {b \in Bodies : /\ b.json
                    /\ b.interior_bedrooms = JNum(2)
                    /\ b.interior_fullbaths = JStr("1")
                    /\ b.interior_halfbaths \in {JNum(2), JNull}
                    /\ b.condition_overallcondition \in {JStr("Good"), JStr("Fair"), JStr("good")}}

Next ==
    \/ \E r \in Reloaders, up \in ConcurrentUpstream : ReloadFetch(r, up)
    \/ \E r \in Reloaders : ReloadPersist(r)
    \/ \E r \in Reloaders : ReloadPersistFails(r)
    \/ \E r \in Reloaders : ReloadPreprocess(r)
    \/ \E r \in Reloaders : ReloadNewModel(r)
    \/ \E r \in Reloaders : ReloadFit(r)
    \/ \E r \in Reloaders : ReloadReturn(r)
    \/ \E p \in Predictors, data \in ConcurrentBodies : PredictCheck(p, data)
    \/ \E p \in Predictors : PredictEncode(p)
    \/ \E p \in Predictors : PredictModel(p)
    \/ \E p \in Predictors : PredictReturn(p)

Spec == Init /\ [][Next]_vars

\* No request is being handled.
AllIdle ==
    /\ \A r \in Reloaders : reloaders[r].pc = "idle"
    /\ \A p \in Predictors : predictors[p].pc = "idle"

\* One request at a time: a request starts only when none is being handled.
SeqNext ==
    \/ AllIdle /\ \E r \in Reloaders, up \in UpstreamOutcomes : ReloadFetch(r, up)
    \/ \E r \in Reloaders : ReloadPersist(r)
    \/ \E r \in Reloaders : ReloadPersistFails(r)
    \/ \E r \in Reloaders : ReloadPreprocess(r)
    \/ \E r \in Reloaders : ReloadNewModel(r)
    \/ \E r \in Reloaders : ReloadFit(r)
    \/ \E r \in Reloaders : ReloadReturn(r)
    \/ AllIdle /\ \E p \in Predictors, data \in Bodies : PredictCheck(p, data)
    \/ \E p \in Predictors : PredictEncode(p)
    \/ \E p \in Predictors : PredictModel(p)
    \/ \E p \in Predictors : PredictReturn(p)

SeqSpec == Init /\ [][SeqNext]_vars

PreInit ==
    /\ store = <<>>
    /\ storegen = 0
    /\ encoder = NoEncoder
    /\ model = NoModel
    /\ nreloads = 0
    /\ reloaders = [r \in Reloaders |-> ReloaderIdle]
    /\ predictors = [p \in Predictors |-> PredictorIdle]
    /\ pin \in PreInputs
    /\ pout = NotCalled

PreNext == PreprocessCall

PreSpec == PreInit /\ [][PreNext]_vars

---------------------------------------------------------------------------
(* Properties *)

\* The three numeric fields of a JSON body all read as numbers.
NumericOk(data) ==
    /\ data.json
    /\ to_numeric(data.interior_bedrooms) # NaN
    /\ to_numeric(data.interior_fullbaths) # NaN
    /\ to_numeric(data.interior_halfbaths) # NaN

\* Both globals are set: some reload got as far as line 111.
Loaded == model.set /\ encoder.set

\* The globals are the pair one reload that got through left behind.
LoadedPair == Loaded /\ model.fitted /\ model.fitgen = encoder.gen /\ model.id = encoder.gen

\* The rows of a CSV body without a missing cell.
CompleteRows(csv) == SelectSeq(csv, LAMBDA row : ~HasNa(row))

\* The condition values in the Assessment table.
StoreConditions == {store[i].condition_overallcondition : i \in 1..Len(store)}

C2_AnyAcceptedCondition ==
    \A p \in Predictors :
        ( /\ predictors[p].pc = "done"
          /\ LoadedPair
          /\ NumericOk(predictors[p].data)
          /\ Accepted(predictors[p].data.condition_overallcondition) )
        => predictors[p].resp.status = 200

\* C2 as amended: one request at a time, with the globals the pair a
\* successful reload left, every answered predict request whose three
\* numeric fields read as numbers and whose condition is an accepted literal
\* that is also among the categories that reload's encoder was fitted on got
\* 200 with a predicted_assessedvalue computed by that reload's fit from the
\* request's own numbers.
C2_SeenAcceptedCondition ==
    \A p \in Predictors :
        ( /\ predictors[p].pc = "done"
          /\ LoadedPair
          /\ NumericOk(predictors[p].data)
          /\ Accepted(predictors[p].data.condition_overallcondition)
          /\ InCategories(encoder.categories, predictors[p].data.condition_overallcondition.s) )
        => /\ predictors[p].resp.status = 200
           /\ predictors[p].resp.error = ""
           /\ predictors[p].resp.predicted_assessedvalue.fitgen = encoder.gen
           /\ SubSeq(predictors[p].resp.predicted_assessedvalue.input_data, 1, 3)
                = <<to_numeric(predictors[p].data.interior_bedrooms),
                    to_numeric(predictors[p].data.interior_fullbaths),
                    to_numeric(predictors[p].data.interior_halfbaths)>>

C2_Witness ==
    \E p \in Predictors :
        /\ predictors[p].pc = "done"
        /\ LoadedPair
        /\ encoder.gen = 2
        /\ Len(encoder.categories) = 2
        /\ predictors[p].data.interior_bedrooms = JStr("1")
        /\ predictors[p].data.condition_overallcondition = JStr("Fair")
        /\ predictors[p].resp.status = 200

\* C3: a predict call that invoked the model used a fitted model, fitted by
\* the same reload that produced the encoder the call encoded with.
C3_EncoderModelPair ==
    \A p \in Predictors :
        (predictors[p].pc = "done" /\ predictors[p].usedModel.set)
        => /\ predictors[p].usedModel.fitted
           /\ predictors[p].usedModel.fitgen = predictors[p].usedEncoder.gen

\* C4: a reload that has answered either failed and left the table, the
\* encoder and the model untouched, or succeeded and wrote all three.
C4_NoPartialReload ==
    \A r \in Reloaders :
        reloaders[r].pc = "done" =>
            IF reloaders[r].resp.status = 200
            THEN /\ storegen = reloaders[r].gen
                 /\ encoder.gen = reloaders[r].gen
                 /\ model.fitted /\ model.fitgen = reloaders[r].gen
            ELSE /\ store = reloaders[r].before.store
                 /\ encoder = reloaders[r].before.encoder
                 /\ model = reloaders[r].before.model

\* C5: with the globals set, every answered predict request with a numeric
\* field missing or unparsable and with a condition string, accepted or not,
\* got 400 with the invalid-numeric-values message.
C5_NumericBeforeCondition ==
    \A p \in Predictors :
        ( /\ predictors[p].pc = "done"
          /\ Loaded
          /\ predictors[p].data.json
          /\ ~NumericOk(predictors[p].data)
          /\ predictors[p].data.condition_overallcondition.t = "str" )
        => predictors[p].resp = Error(400, ErrNumeric)

\* C6: with the globals set, every answered predict request whose three
\* numeric fields read as numbers and whose condition is a string that is
\* not exactly one of the seven literals got 400 with the invalid-condition
\* message, and neither the encoder nor the model was invoked for it.
C6_ConditionRejected ==
    \A p \in Predictors :
        ( /\ predictors[p].pc = "done"
          /\ Loaded
          /\ NumericOk(predictors[p].data)
          /\ predictors[p].data.condition_overallcondition.t = "str"
          /\ predictors[p].data.condition_overallcondition.s \notin ValidConditions )
        => /\ predictors[p].resp = Error(400, ErrCondition)
           /\ ~predictors[p].usedEncoder.set
           /\ ~predictors[p].usedModel.set

C6_Witness ==
    \E p \in Predictors :
        /\ predictors[p].pc = "done"
        /\ LoadedPair
        /\ NumericOk(predictors[p].data)
        /\ predictors[p].data.condition_overallcondition = JStr("good")
        /\ InCategories(encoder.categories, "Good")
        /\ predictors[p].resp = Error(400, ErrCondition)

\* C7: when a reload has answered 200, the table holds one record per
\* complete row of that reload's fetch, in order, with that row's values and
\* no missing field, and nothing else; total_assessments is their number.
C7_StoreIsLastFetch ==
    \A r \in Reloaders :
        (reloaders[r].pc = "done" /\ reloaders[r].resp.status = 200) =>
            LET rows == CompleteRows(reloaders[r].response.csv)
            IN  /\ Len(store) = Len(rows)
                /\ reloaders[r].resp.total_assessments = Len(rows)
                /\ \A i \in 1..Len(store) :
                      /\ store[i].id = i
                      /\ [f \in DOMAIN rows[i] |-> store[i][f]] = rows[i]
                      /\ ~HasNa(store[i])

C7_Witness ==
    \E r \in Reloaders :
        /\ reloaders[r].pc = "done"
        /\ reloaders[r].resp.status = 200
        /\ reloaders[r].gen = 2
        /\ Len(reloaders[r].response.csv) = 3
        /\ reloaders[r].resp.total_assessments = 2
        /\ store[1].condition_overallcondition = "Good"

\* C8: with the globals set, every answered predict request whose three
\* numeric fields read as numbers and whose condition is an accepted literal
\* that the encoder was not fitted on (when the encoder's reload is the one
\* that wrote the table: a literal that does not occur in the table) got 500
\* with an error text and no prediction, without the model being invoked;
\* and no step of a predict call changes the table, the encoder or the
\* model, so later calls find them as they were.
C8_UnseenConditionIs500 ==
    /\ [](\A p \in Predictors :
            ( /\ predictors[p].pc = "done"
              /\ Loaded
              /\ NumericOk(predictors[p].data)
              /\ Accepted(predictors[p].data.condition_overallcondition)
              /\ \/ \A i \in 1..Len(encoder.categories) :
                       encoder.categories[i] # predictors[p].data.condition_overallcondition.s
                 \/ /\ storegen = encoder.gen
                    /\ predictors[p].data.condition_overallcondition.s \notin StoreConditions )
            => /\ predictors[p].resp.status = 500
               /\ predictors[p].resp.error # ""
               /\ predictors[p].resp.predicted_assessedvalue = NoPrediction
               /\ ~predictors[p].usedModel.set)
    /\ [][predictors' # predictors => UNCHANGED <<store, storegen, encoder, model>>]_vars

C8_Witness ==
    \E p \in Predictors :
        /\ predictors[p].pc = "done"
        /\ LoadedPair
        /\ storegen = encoder.gen
        /\ StoreConditions = {"Good", "Fair"}
        /\ NumericOk(predictors[p].data)
        /\ predictors[p].data.condition_overallcondition = JStr("Very Good")
        /\ predictors[p].resp = Error(500, ErrUnknownCategory)

\* C9: when preprocess_data returns, its frame has one row per input row
\* without a missing cell, in order, and each row carries that input row's
\* assessed value, bedrooms, full baths and half baths next to the indicator
\* vector of that same row's condition: a single 1, at the position of its
\* own condition among the categories.
C9_RowAlignment ==
    (pout.called /\ ~pout.raised) =>
        LET complete == SelectSeq(pin, LAMBDA r : ~HasNa(r.row))
        IN  /\ Len(pout.df) = Len(complete)
            /\ \A k \in 1..Len(pout.df) :
                  /\ k <= Len(complete)
                  /\ pout.df[k].assessedvalue = complete[k].row.assessedvalue
                  /\ pout.df[k].interior_bedrooms = complete[k].row.interior_bedrooms
                  /\ pout.df[k].interior_fullbaths = complete[k].row.interior_fullbaths
                  /\ pout.df[k].interior_halfbaths = complete[k].row.interior_halfbaths
                  /\ Len(pout.df[k].onehot) = Len(pout.categories)
                  /\ \A i \in 1..Len(pout.categories) :
                        pout.df[k].onehot[i] = 1
                            <=> pout.categories[i] = complete[k].row.condition_overallcondition

\* C10: one request at a time, whenever predict has built its feature
\* vector and the model is fitted, the vector is as wide as the columns the
\* model was fitted on and laid out like them: the request's bedrooms, full
\* baths and half baths, then one indicator per category of the current
\* encoder, in the encoder's order; and when the fit is the one of the reload
\* that wrote the table, the width is 3 plus the number of distinct
\* conditions in the table.
C10_FeatureLayout ==
    \A p \in Predictors :
        (predictors[p].pc = "predict" /\ model.fitted) =>
            LET x    == predictors[p].input_data
                data == predictors[p].data
                cats == encoder.categories
            IN  /\ Len(x) = Len(model.cols)
                /\ Len(x) = 3 + Len(cats)
                /\ model.cols[1] = <<"interior_bedrooms">>
                /\ x[1] = to_numeric(data.interior_bedrooms)
                /\ model.cols[2] = <<"interior_fullbaths">>
                /\ x[2] = to_numeric(data.interior_fullbaths)
                /\ model.cols[3] = <<"interior_halfbaths">>
                /\ x[3] = to_numeric(data.interior_halfbaths)
                /\ \A i \in 1..Len(cats) :
                      /\ model.cols[3 + i] = <<"condition_overallcondition", cats[i]>>
                      /\ x[3 + i] = IF cats[i] = data.condition_overallcondition.s THEN 1 ELSE 0
                /\ storegen = model.fitgen => Len(x) = 3 + Cardinality(StoreConditions)

C10_Witness ==
    \E p \in Predictors :
        /\ predictors[p].pc = "predict"
        /\ model.fitted
        /\ model.fitgen = 2
        /\ predictors[p].usedEncoder.gen = 2
        /\ predictors[p].input_data = <<1, 2, 1, 0, 1>>

=============================================================================
